---- MODULE Spec2Model ----
(***************************************************************************)
(* Mesh peer-connection orchestration of src/pages/StudyRoom.tsx.          *)
(*                                                                         *)
(* Every user of Sessions runs one StudyRoom component.  The state of a    *)
(* component is its refs and React state (participants, isInitializedRef,  *)
(* localStreamRef, signalingChannelRef, peerConnectionsRef), the operations*)
(* queued on each RTCPeerConnection (one entry per suspended await), the   *)
(* pending setTimeout callbacks, the rows of webrtc_signals not yet        *)
(* delivered by the realtime channel and the fetchParticipants calls in    *)
(* flight.                                                                 *)
(***************************************************************************)
EXTENDS Integers, Sequences, FiniteSets, TLC

Users == {"a", "b", "c"}

\* bounds of the environment (not program constants)
MaxFail == 1
MaxMember == 1
MaxStray == 1
MaxIce == 2

\* setTimeout(..., 2000) of the onconnectionstatechange handler
RetryDelay == 2000

VARIABLES
  engineRollback,       \* the browser applies a remote offer in have-local-offer by implicit rollback
  sessions,             \* users whose StudyRoom component is mounted
  members,              \* room_participants rows with is_active = true
  phase,                \* position of initializeRoom in each session
  participants,         \* React state participants (user_id of each row)
  isInitializedRef,
  localStreamRef,       \* TRUE when localStreamRef.current is a stream
  signalingChannelRef,  \* TRUE when the realtime channel is subscribed
  peerConnectionsRef,   \* [user -> [peer -> connection or NoPc]]
  pcCount,              \* number of RTCPeerConnection objects created per user and peer
  opsChain,             \* operations pending on the tracked connection, in call order
  staleOps,             \* operations pending on connections that were closed
  retryTimers,          \* pending setTimeout callbacks per user and peer
  webrtc_signals,       \* [from -> [to -> rows inserted and not yet delivered]]
  fetches,              \* fetchParticipants calls in flight per session
  failBudget,           \* transport failures the environment may still cause
  memberBudget,         \* membership changes the environment may still cause
  iceBudget,            \* local candidates each connection gathers
  strayBudget,          \* rows the environment may still insert into webrtc_signals
  tracks,               \* isAudioOn / isVideoOn and the enabled flag of the local tracks
  consecFail,           \* observer: consecutive failure transitions since the last connected
  iceRecv,              \* observer: candidates handleIceCandidate received since the last close or createPeerConnection
  failedLinks,          \* observer: links whose failure was reported at both ends
  last                  \* observer: the step taken last

vars == <<engineRollback, sessions, members, phase, participants, isInitializedRef,
          localStreamRef, signalingChannelRef, peerConnectionsRef, pcCount, opsChain,
          staleOps, retryTimers, webrtc_signals, fetches, failBudget, memberBudget,
          iceBudget, strayBudget, tracks, consecFail, iceRecv, failedLinks, last>>

----------------------------------------------------------------------------
\* Values

NoDesc == [type |-> "none", from |-> "", gen |-> 0, re |-> 0]

NoCand == [gen |-> 0, n |-> 0]

Offer(u, g) == [type |-> "offer", from |-> u, gen |-> g, re |-> 0]

Answer(u, g, r) == [type |-> "answer", from |-> u, gen |-> g, re |-> r]

\* interface PeerConnection { peerConnection, stream } with the RTCPeerConnection
\* slots the handlers read: signalingState, connectionState, the descriptions,
\* the remote candidates added, the local candidates gathered, and which
\* onconnectionstatechange handler is installed (creator).  glared is an
\* observer: an offer of the peer arrived while the own offer was outstanding.
NoPc == [gen |-> 0, sig |-> "closed", conn |-> "closed", local |-> NoDesc, remote |-> NoDesc,
         creator |-> "none", stream |-> FALSE, ice |-> <<>>, iceOut |-> 0, glared |-> FALSE]

NewPc(g, c) == [gen |-> g, sig |-> "stable", conn |-> "new", local |-> NoDesc, remote |-> NoDesc,
                creator |-> c, stream |-> FALSE, ice |-> <<>>, iceOut |-> 0, glared |-> FALSE]

Has(u, p) == peerConnectionsRef[u][p].gen # 0

Op(k, g, d, c) == [kind |-> k, gen |-> g, desc |-> d, cand |-> c]

\* The room of the session and another room of the application.
RoomId == "room"

OtherRoom == "other"

Signal(t, d, c) == [type |-> t, desc |-> d, cand |-> c, room_id |-> RoomId]

\* A payload that is no session description and one that is no candidate.
BadDesc == [type |-> "malformed", from |-> "", gen |-> 0, re |-> 0]

BadCand == [gen |-> 0, n |-> 1]

\* useState(true) of isAudioOn and isVideoOn; a new track is enabled.
NewTracks == [isAudioOn |-> TRUE, isVideoOn |-> TRUE, audio |-> TRUE, video |-> TRUE]

Step(o, u, p, i) == [op |-> o, u |-> u, p |-> p, info |-> i]

----------------------------------------------------------------------------
\* The RTCPeerConnection operations the handlers await

\* Outcome of one queued operation on a connection: ok, the connection after
\* it, and the description it produced.  An operation on a closed connection
\* never succeeds, and a payload that is no description or no candidate is
\* rejected.
ApplyOp(pc, op) ==
  LET fail == [ok |-> FALSE, pc |-> pc, out |-> NoDesc] IN
  IF pc.sig = "closed" THEN fail
  ELSE CASE op.kind = "createOffer" ->
              [ok |-> TRUE, pc |-> pc, out |-> Offer(op.desc.from, pc.gen)]
         [] op.kind = "setLocalOffer" ->
              IF pc.sig = "stable"
              THEN [ok |-> TRUE, pc |-> [pc EXCEPT !.sig = "have-local-offer", !.local = op.desc],
                    out |-> op.desc]
              ELSE fail
         [] op.kind = "setRemoteOffer" ->
              IF op.desc.type # "offer" THEN fail
              ELSE IF pc.sig \in {"stable", "have-remote-offer"}
              THEN [ok |-> TRUE,
                    pc |-> [pc EXCEPT !.sig = "have-remote-offer", !.remote = op.desc,
                                      !.stream = TRUE],
                    out |-> op.desc]
              ELSE IF engineRollback
              THEN [ok |-> TRUE,
                    pc |-> [pc EXCEPT !.sig = "have-remote-offer", !.remote = op.desc,
                                      !.local = NoDesc, !.stream = TRUE],
                    out |-> op.desc]
              ELSE fail
         [] op.kind = "createAnswer" ->
              IF pc.sig = "have-remote-offer"
              THEN [ok |-> TRUE, pc |-> pc, out |-> Answer(op.desc.from, pc.gen, pc.remote.gen)]
              ELSE fail
         [] op.kind = "setLocalAnswer" ->
              IF pc.sig = "have-remote-offer"
              THEN [ok |-> TRUE, pc |-> [pc EXCEPT !.sig = "stable", !.local = op.desc],
                    out |-> op.desc]
              ELSE fail
         [] op.kind = "setRemoteAnswer" ->
              IF op.desc.type # "answer" THEN fail
              ELSE IF pc.sig = "have-local-offer"
              THEN [ok |-> TRUE,
                    pc |-> [pc EXCEPT !.sig = "stable", !.remote = op.desc, !.stream = TRUE],
                    out |-> op.desc]
              ELSE fail
         [] op.kind = "addIceCandidate" ->
              IF op.cand = BadCand THEN fail
              ELSE [ok |-> TRUE, pc |-> [pc EXCEPT !.ice = Append(@, op.cand)],
                    out |-> NoDesc]

\* Handlers that send the description as soon as it is created, before it is
\* set as the local description.
ContinueSendFirst(u, op, res) ==
  LET none == [push |-> <<>>, send |-> {}] IN
  IF ~res.ok THEN none
  ELSE CASE op.kind = "createOffer" ->
              [push |-> <<Op("setLocalOffer", op.gen, res.out, NoCand)>>,
               send |-> {Signal("offer", res.out, NoCand)}]
         [] op.kind = "setRemoteOffer" ->
              [push |-> <<Op("createAnswer", op.gen, Offer(u, 0), NoCand)>>, send |-> {}]
         [] op.kind = "createAnswer" ->
              [push |-> <<Op("setLocalAnswer", op.gen, res.out, NoCand)>>,
               send |-> {Signal("answer", res.out, NoCand)}]
         [] OTHER -> none

\* What the suspended handler does when its await returns: the next operation
\* it calls and the signal it sends.  A rejected await runs the catch block,
\* which only logs.
Continue(u, op, res) ==
  LET none == [push |-> <<>>, send |-> {}] IN
  IF ~res.ok THEN none
  ELSE CASE op.kind = "createOffer" ->
              [push |-> <<Op("setLocalOffer", op.gen, res.out, NoCand)>>, send |-> {}]
         [] op.kind = "setLocalOffer" ->
              [push |-> <<>>, send |-> {Signal("offer", op.desc, NoCand)}]
         [] op.kind = "setRemoteOffer" ->
              [push |-> <<Op("createAnswer", op.gen, Offer(u, 0), NoCand)>>, send |-> {}]
         [] op.kind = "createAnswer" ->
              [push |-> <<Op("setLocalAnswer", op.gen, res.out, NoCand)>>, send |-> {}]
         [] op.kind = "setLocalAnswer" ->
              [push |-> <<>>, send |-> {Signal("answer", op.desc, NoCand)}]
         [] OTHER -> none

\* sendSignal: the row reaches the recipient only if its channel is subscribed
\* when the row is inserted.
sendSignal(tbl, from, to, sigs) ==
  IF signalingChannelRef[to]
  THEN [tbl EXCEPT ![from][to] = @ \cup sigs]
  ELSE tbl

----------------------------------------------------------------------------
\* Operations of one session

Peers(u) == Users \ {u}

\* createPeerConnection up to its first await: the connection is stored in the
\* map and createOffer is called.
createdPc(u, p) == NewPc(pcCount[u][p] + 1, "create")

createdChain(u, p) == <<Op("createOffer", pcCount[u][p] + 1, Offer(u, 0), NoCand)>>

\* A reconcile step that creates a connection for every participant of the
\* snapshot, tracked or not.
ToCreateAlways(u, snap) ==
  IF isInitializedRef[u] /\ localStreamRef[u]
  THEN {p \in snap : p # u}
  ELSE {}

\* The participants effect for the snapshot snap: which peers get a new
\* connection and which tracked peers are closed.
ToCreate(u, snap) ==
  IF isInitializedRef[u] /\ localStreamRef[u]
  THEN {p \in snap : p # u /\ ~Has(u, p)}
  ELSE {}

\* A reconcile step that never closes a connection.
ToCloseNone(u, snap) == {}

\* A reconcile step that tears down every tracked connection as soon as one
\* tracked participant is gone.
ToCloseAll(u, snap) ==
  IF isInitializedRef[u] /\ localStreamRef[u]
       /\ \E p \in Users : Has(u, p) /\ p # u /\ p \notin snap
  THEN {p \in Users : Has(u, p) /\ p # u}
  ELSE {}

ToClose(u, snap) ==
  IF isInitializedRef[u] /\ localStreamRef[u]
  THEN {p \in Users : Has(u, p) /\ p # u /\ p \notin snap}
  ELSE {}

\* The create loop of the participants effect over the participants array arr
\* in its order: the keys of the map after it, keys being the keys before.
RECURSIVE CreateInOrder(_, _, _)
CreateInOrder(u, arr, keys) ==
  IF arr = <<>> THEN keys
  ELSE CreateInOrder(u, Tail(arr),
                     IF Head(arr) # u /\ Head(arr) \notin keys
                     THEN keys \cup {Head(arr)}
                     ELSE keys)

\* The keys of the map of an initialised session with media after the effect
\* has run for the array arr: the create loop, then the remove loop.
KeysAfter(u, arr) ==
  LET participantIds == {arr[i] : i \in DOMAIN arr}
      created == CreateInOrder(u, arr, {p \in Users : Has(u, p)})
  IN {k \in created : ~(k # u /\ k \notin participantIds)}

\* The arrays in which a select can return the rows of the set snap.
Orders(snap) ==
  {arr \in [1..Cardinality(snap) -> snap] : {arr[i] : i \in DOMAIN arr} = snap}

\* closePeerConnection / createPeerConnection applied to the sets cl and cr of
\* peers of u, everything else of the connection state left alone.
UpdateConnections(u, cl, cr) ==
  /\ peerConnectionsRef' = [peerConnectionsRef EXCEPT ![u] =
       [p \in Users |-> IF p \in cr THEN createdPc(u, p)
                        ELSE IF p \in cl THEN NoPc
                        ELSE peerConnectionsRef[u][p]]]
  /\ pcCount' = [pcCount EXCEPT ![u] =
       [p \in Users |-> IF p \in cr THEN pcCount[u][p] + 1 ELSE pcCount[u][p]]]
  /\ opsChain' = [opsChain EXCEPT ![u] =
       [p \in Users |-> IF p \in cr THEN createdChain(u, p)
                        ELSE IF p \in cl THEN <<>>
                        ELSE opsChain[u][p]]]
  /\ staleOps' = [staleOps EXCEPT ![u] =
       [p \in Users |-> IF p \in cl THEN staleOps[u][p] \o opsChain[u][p]
                        ELSE staleOps[u][p]]]
  /\ iceRecv' = [iceRecv EXCEPT ![u] =
       [p \in Users |-> IF p \in cl \cup cr THEN <<>> ELSE iceRecv[u][p]]]

RemoveAt(s, i) == SubSeq(s, 1, i - 1) \o SubSeq(s, i + 1, Len(s))

\* A room_participants change reaches every subscribed session, whose callback
\* calls fetchParticipants; its select returns the rows active at that time.
Notified(f, m) ==
  [u \in Users |-> IF signalingChannelRef[u] THEN Append(f[u], m) ELSE f[u]]

\* initializeRoom: fetchParticipants (the effect returns early, the session is
\* not initialised yet), initializeLocalStream, setupSignalingChannel and
\* isInitializedRef.current = true.
initializeRoom(u, mediaOk) ==
  /\ u \in sessions /\ phase[u] = "fresh"
  /\ phase' = [phase EXCEPT ![u] = "ready"]
  /\ participants' = [participants EXCEPT ![u] = members]
  /\ localStreamRef' = [localStreamRef EXCEPT ![u] = mediaOk]
  /\ signalingChannelRef' = [signalingChannelRef EXCEPT ![u] = TRUE]
  /\ isInitializedRef' = [isInitializedRef EXCEPT ![u] = TRUE]
  /\ tracks' = IF mediaOk
               THEN [tracks EXCEPT ![u].audio = tracks[u].isAudioOn,
                                   ![u].video = tracks[u].isVideoOn]
               ELSE tracks
  /\ last' = Step("initializeRoom", u, u, IF mediaOk THEN "media" ELSE "nomedia")
  /\ UNCHANGED <<failedLinks, engineRollback, sessions, members, peerConnectionsRef, pcCount, opsChain,
                 staleOps, retryTimers, webrtc_signals, fetches, failBudget, memberBudget,
                 iceBudget, strayBudget, consecFail, iceRecv>>

\* initializeRoom up to the next point where it is suspended: fetchParticipants
\* has set the participants of a mounted component and getUserMedia settles.
\* With a stream, initializeLocalStream is suspended once more (play).  When
\* getUserMedia is rejected, initializeLocalStream catches it and returns, and
\* initializeRoom goes on to its end without being suspended again.
initializeLocalStream(u, mediaOk) ==
  LET mounted == phase[u] = "fresh" IN
  /\ u \in sessions /\ phase[u] \in {"fresh", "fresh-stopped"}
  /\ phase' = [phase EXCEPT ![u] =
                 IF mediaOk THEN (IF mounted THEN "media" ELSE "media-stopped")
                 ELSE (IF mounted THEN "ready" ELSE "stopped")]
  /\ participants' = IF mounted THEN [participants EXCEPT ![u] = members] ELSE participants
  /\ localStreamRef' = [localStreamRef EXCEPT ![u] = IF mediaOk THEN TRUE ELSE @]
  /\ signalingChannelRef' = [signalingChannelRef EXCEPT ![u] = IF mediaOk THEN @ ELSE TRUE]
  /\ isInitializedRef' = [isInitializedRef EXCEPT ![u] = IF mediaOk THEN @ ELSE TRUE]
  /\ tracks' = IF mediaOk
               THEN [tracks EXCEPT ![u].audio = tracks[u].isAudioOn,
                                   ![u].video = tracks[u].isVideoOn]
               ELSE tracks
  /\ last' = Step("initializeLocalStream", u, u, IF mediaOk THEN "media" ELSE "nomedia")
  /\ UNCHANGED <<failedLinks, engineRollback, sessions, members, peerConnectionsRef,
                 pcCount, opsChain, staleOps, retryTimers, webrtc_signals, fetches,
                 failBudget, memberBudget, iceBudget, strayBudget, consecFail, iceRecv>>

\* The rest of initializeRoom after a stream was acquired: setupSignalingChannel
\* subscribes the channel and isInitializedRef.current = true.
setupSignalingChannel(u) ==
  /\ u \in sessions /\ phase[u] \in {"media", "media-stopped"}
  /\ phase' = [phase EXCEPT ![u] = IF phase[u] = "media" THEN "ready" ELSE "stopped"]
  /\ signalingChannelRef' = [signalingChannelRef EXCEPT ![u] = TRUE]
  /\ isInitializedRef' = [isInitializedRef EXCEPT ![u] = TRUE]
  /\ last' = Step("setupSignalingChannel", u, u, "")
  /\ UNCHANGED <<failedLinks, engineRollback, sessions, members, participants,
                 localStreamRef, peerConnectionsRef, pcCount, opsChain, staleOps,
                 retryTimers, webrtc_signals, fetches, failBudget, memberBudget,
                 iceBudget, strayBudget, tracks, consecFail, iceRecv>>

\* A toggle that writes the current value of isAudioOn to the track.
handleToggleAudioStale(u) ==
  /\ u \in sessions /\ phase[u] \in {"fresh", "media", "ready"}
  /\ tracks' = IF localStreamRef[u]
               THEN [tracks EXCEPT ![u].audio = tracks[u].isAudioOn,
                                   ![u].isAudioOn = ~tracks[u].isAudioOn]
               ELSE tracks
  /\ last' = Step("handleToggleAudio", u, u, "")
  /\ UNCHANGED <<failedLinks, engineRollback, sessions, members, phase, participants,
                 isInitializedRef, localStreamRef, signalingChannelRef, peerConnectionsRef,
                 pcCount, opsChain, staleOps, retryTimers, webrtc_signals, fetches,
                 failBudget, memberBudget, iceBudget, strayBudget, consecFail, iceRecv>>

\* handleToggleAudio of a mounted component: without a stream nothing happens.
handleToggleAudio(u) ==
  /\ u \in sessions /\ phase[u] \in {"fresh", "media", "ready"}
  /\ tracks' = IF localStreamRef[u]
               THEN [tracks EXCEPT ![u].audio = ~tracks[u].isAudioOn,
                                   ![u].isAudioOn = ~tracks[u].isAudioOn]
               ELSE tracks
  /\ last' = Step("handleToggleAudio", u, u, "")
  /\ UNCHANGED <<failedLinks, engineRollback, sessions, members, phase, participants,
                 isInitializedRef, localStreamRef, signalingChannelRef, peerConnectionsRef,
                 pcCount, opsChain, staleOps, retryTimers, webrtc_signals, fetches,
                 failBudget, memberBudget, iceBudget, strayBudget, consecFail, iceRecv>>

\* handleToggleVideo of a mounted component.
handleToggleVideo(u) ==
  /\ u \in sessions /\ phase[u] \in {"fresh", "media", "ready"}
  /\ tracks' = IF localStreamRef[u]
               THEN [tracks EXCEPT ![u].video = ~tracks[u].isVideoOn,
                                   ![u].isVideoOn = ~tracks[u].isVideoOn]
               ELSE tracks
  /\ last' = Step("handleToggleVideo", u, u, "")
  /\ UNCHANGED <<failedLinks, engineRollback, sessions, members, phase, participants,
                 isInitializedRef, localStreamRef, signalingChannelRef, peerConnectionsRef,
                 pcCount, opsChain, staleOps, retryTimers, webrtc_signals, fetches,
                 failBudget, memberBudget, iceBudget, strayBudget, consecFail, iceRecv>>

\* The room directory: a participant row becomes active.
Join(x) ==
  /\ memberBudget > 0 /\ x \notin members
  /\ members' = members \cup {x}
  /\ memberBudget' = memberBudget - 1
  /\ fetches' = Notified(fetches, members')
  /\ last' = Step("join", x, x, "")
  /\ UNCHANGED <<failedLinks, engineRollback, sessions, phase, participants, isInitializedRef,
                 localStreamRef, signalingChannelRef, peerConnectionsRef, pcCount, opsChain,
                 staleOps, retryTimers, webrtc_signals, failBudget, iceBudget, strayBudget, tracks, consecFail,
                 iceRecv>>

\* handleLeaveRoom of a mounted session (the row is deleted and the page is
\* left), or the row of a participant without a modelled session going away.
Leave(x) ==
  /\ memberBudget > 0 /\ x \in members
  /\ x \in sessions => phase[x] = "ready"
  /\ members' = members \ {x}
  /\ memberBudget' = memberBudget - 1
  /\ fetches' = Notified(fetches, members')
  /\ phase' = IF x \in sessions THEN [phase EXCEPT ![x] = "leaving"] ELSE phase
  /\ last' = Step("leave", x, x, "")
  /\ UNCHANGED <<failedLinks, engineRollback, sessions, participants, isInitializedRef,
                 localStreamRef, signalingChannelRef, peerConnectionsRef, pcCount, opsChain,
                 staleOps, retryTimers, webrtc_signals, failBudget, iceBudget, strayBudget, tracks, consecFail,
                 iceRecv>>

\* cleanup, run when the component unmounts: after the page was left, or while
\* initializeRoom is suspended at one of its awaits, which then goes on.
cleanup(u) ==
  /\ u \in sessions /\ phase[u] \in {"leaving", "fresh", "media"}
  /\ phase' = [phase EXCEPT ![u] = CASE phase[u] = "fresh" -> "fresh-stopped"
                                      [] phase[u] = "media" -> "media-stopped"
                                      [] OTHER -> "stopped"]
  /\ UpdateConnections(u, {p \in Users : Has(u, p)}, {})
  /\ localStreamRef' = [localStreamRef EXCEPT ![u] = FALSE]
  /\ signalingChannelRef' = [signalingChannelRef EXCEPT ![u] = FALSE]
  /\ isInitializedRef' = [isInitializedRef EXCEPT ![u] = FALSE]
  /\ webrtc_signals' = [f \in Users |-> [t \in Users |->
                          IF t = u THEN {} ELSE webrtc_signals[f][t]]]
  /\ fetches' = [fetches EXCEPT ![u] = <<>>]
  /\ last' = Step("cleanup", u, u, "")
  /\ UNCHANGED <<failedLinks, engineRollback, sessions, members, participants, retryTimers, failBudget,
                 memberBudget, iceBudget, strayBudget, tracks, consecFail>>

\* A room_participants row is updated without any change of who is active.
Touch ==
  /\ memberBudget > 0 /\ members # {}
  /\ memberBudget' = memberBudget - 1
  /\ fetches' = Notified(fetches, members)
  /\ last' = Step("touch", "", "", "")
  /\ UNCHANGED <<failedLinks, engineRollback, sessions, members, phase, participants, isInitializedRef,
                 localStreamRef, signalingChannelRef, peerConnectionsRef, pcCount, opsChain,
                 staleOps, retryTimers, webrtc_signals, failBudget, iceBudget, strayBudget, tracks, consecFail,
                 iceRecv>>

\* The response of fetchParticipants: setParticipants, then the effects that
\* depend on participants run: the auto-redirect and the reconcile step.
fetchParticipants(u, i) ==
  /\ u \in sessions /\ phase[u] # "stopped"
  /\ i \in 1..Len(fetches[u])
  /\ LET snap == fetches[u][i] IN
       /\ participants' = [participants EXCEPT ![u] = snap]
       /\ phase' = IF isInitializedRef[u] /\ snap # {} /\ u \notin snap /\ phase[u] = "ready"
                   THEN [phase EXCEPT ![u] = "leaving"]
                   ELSE phase
       /\ UpdateConnections(u, ToClose(u, snap), ToCreate(u, snap))
  /\ fetches' = [fetches EXCEPT ![u] = RemoveAt(@, i)]
  /\ last' = Step("reconcile", u, u,
                  IF ToClose(u, fetches[u][i]) # {} THEN "close"
                  ELSE IF ToCreate(u, fetches[u][i]) # {} THEN "create"
                  ELSE IF fetches[u][i] = participants[u] THEN "repeat" ELSE "same")
  /\ UNCHANGED <<failedLinks, engineRollback, sessions, members, isInitializedRef, localStreamRef,
                 signalingChannelRef, retryTimers, webrtc_signals, failBudget, memberBudget,
                 iceBudget, strayBudget, tracks, consecFail>>

----------------------------------------------------------------------------
\* Signaling handlers

\* A handleOffer that does not test localStreamRef.current.
handleOfferNoGuard(u, from, s) ==
  LET g == IF Has(u, from) THEN peerConnectionsRef[u][from].gen
           ELSE pcCount[u][from] + 1 IN
  /\ peerConnectionsRef' =
       IF Has(u, from)
       THEN [peerConnectionsRef EXCEPT ![u][from].glared =
               @ \/ peerConnectionsRef[u][from].sig = "have-local-offer"]
       ELSE [peerConnectionsRef EXCEPT ![u][from] = NewPc(g, "offer")]
  /\ pcCount' = [pcCount EXCEPT ![u][from] = IF Has(u, from) THEN @ ELSE g]
  /\ opsChain' = [opsChain EXCEPT ![u][from] =
                    Append(@, Op("setRemoteOffer", g, s.desc, NoCand))]
  /\ UNCHANGED iceRecv

\* handleOffer up to its first await: the connection is looked up, created
\* when absent, and setRemoteDescription(offer) is called on it.
handleOffer(u, from, s) ==
  IF ~localStreamRef[u]
  THEN UNCHANGED <<peerConnectionsRef, pcCount, opsChain, iceRecv>>
  ELSE LET g == IF Has(u, from) THEN peerConnectionsRef[u][from].gen
                ELSE pcCount[u][from] + 1 IN
       /\ peerConnectionsRef' =
            IF Has(u, from)
            THEN [peerConnectionsRef EXCEPT ![u][from].glared =
                    @ \/ peerConnectionsRef[u][from].sig = "have-local-offer"]
            ELSE [peerConnectionsRef EXCEPT ![u][from] = NewPc(g, "offer")]
       /\ pcCount' = [pcCount EXCEPT ![u][from] = IF Has(u, from) THEN @ ELSE g]
       /\ opsChain' = [opsChain EXCEPT ![u][from] =
                         Append(@, Op("setRemoteOffer", g, s.desc, NoCand))]
       /\ UNCHANGED iceRecv

\* handleAnswer up to its await.
handleAnswer(u, from, s) ==
  /\ opsChain' = IF Has(u, from)
                 THEN [opsChain EXCEPT ![u][from] =
                         Append(@, Op("setRemoteAnswer", peerConnectionsRef[u][from].gen,
                                      s.desc, NoCand))]
                 ELSE opsChain
  /\ UNCHANGED <<peerConnectionsRef, pcCount, iceRecv>>

\* handleIceCandidate up to its await: the candidate is added only when the
\* connection exists and has a remote description.
handleIceCandidate(u, from, s) ==
  /\ opsChain' = IF Has(u, from) /\ peerConnectionsRef[u][from].remote # NoDesc
                 THEN [opsChain EXCEPT ![u][from] =
                         Append(@, Op("addIceCandidate", peerConnectionsRef[u][from].gen,
                                      NoDesc, s.cand))]
                 ELSE opsChain
  /\ iceRecv' = [iceRecv EXCEPT ![u][from] = Append(@, s.cand)]
  /\ UNCHANGED <<peerConnectionsRef, pcCount>>

\* The realtime callback for an inserted row addressed to u.
handleSignal(u, from, s) ==
  /\ u \in sessions /\ signalingChannelRef[u]
  /\ s \in webrtc_signals[from][u]
  /\ webrtc_signals' = [webrtc_signals EXCEPT ![from][u] = @ \ {s}]
  /\ CASE s.type = "offer" -> handleOffer(u, from, s)
       [] s.type = "answer" -> handleAnswer(u, from, s)
       [] s.type = "ice-candidate" -> handleIceCandidate(u, from, s)
  /\ last' = Step(s.type, u, from,
                  IF Has(u, from) THEN peerConnectionsRef[u][from].sig ELSE "none")
  /\ UNCHANGED <<failedLinks, engineRollback, sessions, members, phase, participants, isInitializedRef,
                 localStreamRef, signalingChannelRef, staleOps, retryTimers, fetches,
                 failBudget, memberBudget, iceBudget, strayBudget, tracks, consecFail>>

\* The operation at the head of the chain of the tracked connection settles and
\* the handler suspended on it resumes.
EngineStep(u, p) ==
  /\ Has(u, p) /\ opsChain[u][p] # <<>>
  /\ LET op == Head(opsChain[u][p])
         res == ApplyOp(peerConnectionsRef[u][p], op)
         k == Continue(u, op, res)
     IN /\ peerConnectionsRef' = [peerConnectionsRef EXCEPT ![u][p] = res.pc]
        /\ opsChain' = [opsChain EXCEPT ![u][p] = Tail(@) \o k.push]
        /\ webrtc_signals' = sendSignal(webrtc_signals, u, p, k.send)
        /\ last' = Step(op.kind, u, p,
                        IF res.ok THEN peerConnectionsRef[u][p].sig ELSE "rejected")
  /\ UNCHANGED <<failedLinks, engineRollback, sessions, members, phase, participants, isInitializedRef,
                 localStreamRef, signalingChannelRef, pcCount, staleOps, retryTimers, fetches,
                 failBudget, memberBudget, iceBudget, strayBudget, tracks, consecFail, iceRecv>>

\* A close() that leaves the connection object usable.
ClosedPcStillOpen(g) == NewPc(g, "create")

\* peerConnection.close() of closePeerConnection and cleanup: the state of a
\* connection object after it was closed.
ClosedPc(g) == NoPc

\* An operation that was pending on a connection when it was closed: the
\* handler suspended on it holds the closed object.
StaleStep(u, p) ==
  /\ staleOps[u][p] # <<>>
  /\ LET op == Head(staleOps[u][p])
         res == ApplyOp(ClosedPc(op.gen), op)
         k == Continue(u, op, res)
     IN /\ staleOps' = [staleOps EXCEPT ![u][p] = Tail(@) \o k.push]
        /\ webrtc_signals' = sendSignal(webrtc_signals, u, p, k.send)
        /\ last' = Step("stale", u, p, op.kind)
  /\ UNCHANGED <<failedLinks, engineRollback, sessions, members, phase, participants, isInitializedRef,
                 localStreamRef, signalingChannelRef, peerConnectionsRef, pcCount, opsChain,
                 retryTimers, fetches, failBudget, memberBudget, iceBudget, strayBudget, tracks, consecFail,
                 iceRecv>>

\* A handler that sends a gathered candidate only once the remote description
\* is set.
onicecandidateNegotiated(u, p) ==
  /\ Has(u, p)
  /\ peerConnectionsRef[u][p].local # NoDesc
  /\ peerConnectionsRef[u][p].iceOut < iceBudget
  /\ LET pc == peerConnectionsRef[u][p] IN
       /\ peerConnectionsRef' = [peerConnectionsRef EXCEPT ![u][p].iceOut = @ + 1]
       /\ webrtc_signals' =
            IF pc.remote # NoDesc
            THEN sendSignal(webrtc_signals, u, p,
                   {Signal("ice-candidate", NoDesc, [gen |-> pc.gen, n |-> pc.iceOut + 1])})
            ELSE webrtc_signals
  /\ last' = Step("onicecandidate", u, p, "")
  /\ UNCHANGED <<failedLinks, engineRollback, sessions, members, phase, participants, isInitializedRef,
                 localStreamRef, signalingChannelRef, pcCount, opsChain, staleOps,
                 retryTimers, fetches, failBudget, memberBudget, iceBudget, strayBudget, tracks, consecFail,
                 iceRecv>>

\* pc.onicecandidate: a gathered candidate is sent to the peer.
onicecandidate(u, p) ==
  /\ Has(u, p)
  /\ peerConnectionsRef[u][p].local # NoDesc
  /\ peerConnectionsRef[u][p].iceOut < iceBudget
  /\ LET pc == peerConnectionsRef[u][p] IN
       /\ peerConnectionsRef' = [peerConnectionsRef EXCEPT ![u][p].iceOut = @ + 1]
       /\ webrtc_signals' = sendSignal(webrtc_signals, u, p,
            {Signal("ice-candidate", NoDesc, [gen |-> pc.gen, n |-> pc.iceOut + 1])})
  /\ last' = Step("onicecandidate", u, p, "")
  /\ UNCHANGED <<failedLinks, engineRollback, sessions, members, phase, participants, isInitializedRef,
                 localStreamRef, signalingChannelRef, pcCount, opsChain, staleOps,
                 retryTimers, fetches, failBudget, memberBudget, iceBudget, strayBudget, tracks, consecFail,
                 iceRecv>>

\* Rows a client of the application can insert for a recipient besides the
\* ones the handlers of this room send: payloads that are no description or no
\* candidate, and an offer that belongs to a session of another room.
StrayRows(from) ==
  {Signal("offer", BadDesc, NoCand),
   Signal("answer", BadDesc, NoCand),
   Signal("ice-candidate", NoDesc, BadCand),
   [Signal("offer", Offer(from, 0), NoCand) EXCEPT !.room_id = OtherRoom]}

\* A row is inserted into webrtc_signals with to_user_id = to; the subscription
\* filters on to_user_id only.
InsertRow(from, to, s) ==
  /\ strayBudget > 0
  /\ s \in StrayRows(from)
  /\ strayBudget' = strayBudget - 1
  /\ webrtc_signals' = sendSignal(webrtc_signals, from, to, {s})
  /\ last' = Step("insert", from, to, s.type)
  /\ UNCHANGED <<failedLinks, engineRollback, sessions, members, phase, participants,
                 isInitializedRef, localStreamRef, signalingChannelRef, peerConnectionsRef,
                 pcCount, opsChain, staleOps, retryTimers, fetches, failBudget,
                 memberBudget, iceBudget, tracks, consecFail, iceRecv>>

\* Row level security of webrtc_signals.  SELECT: the reader is the sender or
\* the recipient of the row.
SelectPolicy(uid, from, to) == uid = from \/ uid = to

\* INSERT: the inserting user is from_user_id and has an active row in
\* room_participants of the room of the row; to_user_id is not looked at.
InsertPolicy(uid, from, to, active) == uid = from /\ uid \in active

\* An authenticated client uid inserts a row of this room from from to to: the
\* insert goes through when the INSERT policy accepts it.
PolicyInsert(uid, from, to, s) ==
  /\ strayBudget > 0
  /\ s.room_id = RoomId
  /\ InsertPolicy(uid, from, to, members)
  /\ strayBudget' = strayBudget - 1
  /\ webrtc_signals' = sendSignal(webrtc_signals, from, to, {s})
  /\ last' = Step("rls-insert", from, to, uid)
  /\ UNCHANGED <<failedLinks, engineRollback, sessions, members, phase, participants,
                 isInitializedRef, localStreamRef, signalingChannelRef, peerConnectionsRef,
                 pcCount, opsChain, staleOps, retryTimers, fetches, failBudget,
                 memberBudget, iceBudget, tracks, consecFail, iceRecv>>

----------------------------------------------------------------------------
\* Transport

\* The two connections of a link hold one completed offer/answer pair: the
\* offer of x applied on both sides and the answer y made to it applied on both.
Paired(x, y) ==
  /\ x.sig = "stable" /\ y.sig = "stable"
  /\ x.local.type = "offer" /\ x.local.gen = x.gen
  /\ y.remote = x.local
  /\ y.local.type = "answer" /\ y.local.gen = y.gen /\ y.local.re = x.gen
  /\ x.remote = y.local

Matched(u, p) ==
  /\ Has(u, p) /\ Has(p, u)
  /\ \/ Paired(peerConnectionsRef[u][p], peerConnectionsRef[p][u])
     \/ Paired(peerConnectionsRef[p][u], peerConnectionsRef[u][p])

\* connectionState becomes connected; both onconnectionstatechange handlers
\* only report it.
TransportConnects(u, p) ==
  /\ Has(u, p) /\ peerConnectionsRef[u][p].conn # "connected"
  /\ Matched(u, p)
  /\ peerConnectionsRef' = [peerConnectionsRef EXCEPT ![u][p].conn = "connected"]
  /\ consecFail' = [consecFail EXCEPT ![u][p] = 0]
  /\ last' = Step("connected", u, p, peerConnectionsRef[u][p].creator)
  /\ UNCHANGED <<failedLinks, engineRollback, sessions, members, phase, participants, isInitializedRef,
                 localStreamRef, signalingChannelRef, pcCount, opsChain, staleOps,
                 retryTimers, webrtc_signals, fetches, failBudget, memberBudget, iceBudget, strayBudget, tracks,
                 iceRecv>>

CanFail(pc, kind) ==
  \/ pc.conn = "connected" /\ kind \in {"failed", "disconnected"}
  \/ pc.conn = "disconnected" /\ kind = "failed"
  \/ pc.conn = "new" /\ pc.local # NoDesc /\ pc.remote # NoDesc /\ kind = "failed"

\* A handler that doubles the delay with every consecutive failure.
ScheduledBackoff(pc, timers, attempt) ==
  IF pc.creator = "create"
  THEN Append(timers, [delay |-> RetryDelay * 2 ^ attempt, attempt |-> attempt,
                       gen |-> pc.gen])
  ELSE timers

\* pc.onconnectionstatechange for failed or disconnected: the handler installed
\* by createPeerConnection calls setTimeout, the one installed by handleOffer
\* logs.  The callback closes over the connection pc (gen) it was installed on.
Scheduled(pc, timers, attempt) ==
  IF pc.creator = "create"
  THEN Append(timers, [delay |-> RetryDelay, attempt |-> attempt, gen |-> pc.gen])
  ELSE timers

\* The transport of the link between u and p breaks: connectionState of the
\* connection of u becomes failed or disconnected, and so does the one at the
\* other end when it is in a state that can.  Each end runs its handler.
TransportFails(u, p, kind) ==
  LET both == p \in sessions /\ Has(p, u) /\ CanFail(peerConnectionsRef[p][u], kind)
      ends == IF both THEN {<<u, p>>, <<p, u>>} ELSE {<<u, p>>}
  IN
  /\ failBudget > 0
  /\ Has(u, p) /\ CanFail(peerConnectionsRef[u][p], kind)
  /\ failBudget' = failBudget - 1
  /\ peerConnectionsRef' = [x \in Users |-> [y \in Users |->
        IF <<x, y>> \in ends THEN [peerConnectionsRef[x][y] EXCEPT !.conn = kind]
        ELSE peerConnectionsRef[x][y]]]
  /\ retryTimers' = [x \in Users |-> [y \in Users |->
        IF <<x, y>> \in ends
        THEN Scheduled(peerConnectionsRef[x][y], retryTimers[x][y], consecFail[x][y])
        ELSE retryTimers[x][y]]]
  /\ consecFail' = [x \in Users |-> [y \in Users |->
        IF <<x, y>> \in ends THEN consecFail[x][y] + 1 ELSE consecFail[x][y]]]
  /\ failedLinks' = IF both THEN failedLinks \cup {{u, p}} ELSE failedLinks
  /\ last' = Step(kind, u, p, IF both THEN "both" ELSE "one")
  /\ UNCHANGED <<engineRollback, sessions, members, phase, participants, isInitializedRef,
                 localStreamRef, signalingChannelRef, pcCount, opsChain, staleOps,
                 webrtc_signals, fetches, memberBudget, iceBudget, strayBudget, tracks, iceRecv>>

\* The setTimeout callback: if the participant is still in the map, close its
\* connection and create a new one.
RetryTimer(u, p) ==
  /\ retryTimers[u][p] # <<>>
  /\ retryTimers' = [retryTimers EXCEPT ![u][p] = Tail(@)]
  /\ IF Has(u, p)
     THEN UpdateConnections(u, {p}, IF localStreamRef[u] THEN {p} ELSE {})
     ELSE UNCHANGED <<peerConnectionsRef, pcCount, opsChain, staleOps, iceRecv>>
  /\ last' = Step("retry", u, p, IF Has(u, p) THEN "recreate" ELSE "noop")
  /\ UNCHANGED <<failedLinks, engineRollback, sessions, members, phase, participants, isInitializedRef,
                 localStreamRef, signalingChannelRef, webrtc_signals, fetches, failBudget,
                 memberBudget, iceBudget, strayBudget, tracks, consecFail>>

----------------------------------------------------------------------------
\* Specifications

InitWith(S, M, fb, mb, ib, sb) ==
  /\ engineRollback \in BOOLEAN
  /\ sessions = S
  /\ members = M
  /\ phase = [u \in Users |-> IF u \in S THEN "fresh" ELSE "none"]
  /\ participants = [u \in Users |-> {}]
  /\ isInitializedRef = [u \in Users |-> FALSE]
  /\ localStreamRef = [u \in Users |-> FALSE]
  /\ signalingChannelRef = [u \in Users |-> FALSE]
  /\ peerConnectionsRef = [u \in Users |-> [p \in Users |-> NoPc]]
  /\ pcCount = [u \in Users |-> [p \in Users |-> 0]]
  /\ opsChain = [u \in Users |-> [p \in Users |-> <<>>]]
  /\ staleOps = [u \in Users |-> [p \in Users |-> <<>>]]
  /\ retryTimers = [u \in Users |-> [p \in Users |-> <<>>]]
  /\ webrtc_signals = [u \in Users |-> [p \in Users |-> {}]]
  /\ fetches = [u \in Users |-> <<>>]
  /\ failBudget = fb
  /\ memberBudget = mb
  /\ iceBudget = ib
  /\ strayBudget = sb
  /\ tracks = [u \in Users |-> NewTracks]
  /\ consecFail = [u \in Users |-> [p \in Users |-> 0]]
  /\ iceRecv = [u \in Users |-> [p \in Users |-> <<>>]]
  /\ failedLinks = {}
  /\ last = Step("init", "", "", "")

\* The state after initializeRoom has completed with local media in every
\* session of S, where the sessions of F were subscribed early enough to be
\* notified of the last room_participants change and have its fetch in flight.
InitReady(S, F, M, fb, mb, ib, sb) ==
  /\ engineRollback \in BOOLEAN
  /\ sessions = S
  /\ members = M
  /\ phase = [u \in Users |-> IF u \in S THEN "ready" ELSE "none"]
  /\ participants = [u \in Users |-> IF u \in S THEN M ELSE {}]
  /\ isInitializedRef = [u \in Users |-> u \in S]
  /\ localStreamRef = [u \in Users |-> u \in S]
  /\ signalingChannelRef = [u \in Users |-> u \in S]
  /\ peerConnectionsRef = [u \in Users |-> [p \in Users |-> NoPc]]
  /\ pcCount = [u \in Users |-> [p \in Users |-> 0]]
  /\ opsChain = [u \in Users |-> [p \in Users |-> <<>>]]
  /\ staleOps = [u \in Users |-> [p \in Users |-> <<>>]]
  /\ retryTimers = [u \in Users |-> [p \in Users |-> <<>>]]
  /\ webrtc_signals = [u \in Users |-> [p \in Users |-> {}]]
  /\ fetches = [u \in Users |-> IF u \in F THEN <<M>> ELSE <<>>]
  /\ failBudget = fb
  /\ memberBudget = mb
  /\ iceBudget = ib
  /\ strayBudget = sb
  /\ tracks = [u \in Users |-> NewTracks]
  /\ consecFail = [u \in Users |-> [p \in Users |-> 0]]
  /\ iceRecv = [u \in Users |-> [p \in Users |-> <<>>]]
  /\ failedLinks = {}
  /\ last = Step("touch", "", "", "")

Reconcile == \E u \in Users : \E i \in 1..Len(fetches[u]) : fetchParticipants(u, i)

Signaling ==
  \/ \E u \in Users : \E from \in Peers(u) : \E s \in webrtc_signals[from][u] :
        handleSignal(u, from, s)
  \/ \E u \in Users : \E p \in Peers(u) : EngineStep(u, p)
  \/ \E u \in Users : \E p \in Peers(u) : TransportConnects(u, p)

Recovery ==
  \/ \E u \in Users : \E p \in Peers(u) : \E kind \in {"failed", "disconnected"} :
        TransportFails(u, p, kind)
  \/ \E u \in Users : \E p \in Peers(u) : RetryTimer(u, p)
  \/ \E u \in Users : \E p \in Peers(u) : StaleStep(u, p)

\* Two sessions a and b of a room whose members they are, started from the
\* mounted components: initialisation with or without local media, one
\* room_participants change, negotiation with both sides free to offer, one
\* transport failure and the retries it causes.
Init == InitWith({"a", "b"}, {"a", "b"}, MaxFail, MaxMember, 0, 0)

Next ==
  \/ \E u \in Users : \E ok \in BOOLEAN : initializeRoom(u, ok)
  \/ Touch
  \/ Reconcile
  \/ Signaling
  \/ Recovery

Spec == Init /\ [][Next]_vars

\* Sessions a and c in a room where a third member b, who runs no session, is
\* present or not yet: members join and leave, sessions leave and clean up,
\* snapshots are applied in any order.
InitMembers ==
  \E M \in {{"a", "c"}, Users} : InitReady({"a", "c"}, {"a", "c"}, M, 0, MaxMember, 0, 0)

NextMembers ==
  \/ \E x \in Users : Join(x)
  \/ \E x \in Users : Leave(x)
  \/ Touch
  \/ \E u \in Users : cleanup(u)
  \/ Reconcile
  \/ Signaling
  \/ \E u \in Users : \E p \in Peers(u) : StaleStep(u, p)

SpecMembers == InitMembers /\ [][NextMembers]_vars

\* Three sessions a, b and c that have joined one room; a and b are notified
\* of the last join and reconcile, c was subscribed too late for it.
InitMesh == InitReady(Users, {"a", "b"}, Users, 0, 0, 0, 0)

NextMesh == Reconcile \/ Signaling

SpecMesh == InitMesh /\ [][NextMesh]_vars

\* The link between a and c of a mesh: both reconcile, and the transport of the
\* link, connected at both ends, reports failed.  The map entries and handlers
\* of a link are independent of the ones of the links to a third member.
InitFail == InitReady({"a", "c"}, {"a", "c"}, {"a", "c"}, MaxFail, 0, 0, 0)

NextFail ==
  \/ Reconcile
  \/ Signaling
  \/ /\ peerConnectionsRef["a"]["c"].conn = "connected"
     /\ peerConnectionsRef["c"]["a"].conn = "connected"
     /\ TransportFails("a", "c", "failed")
  \/ \E u \in Users : \E p \in Peers(u) : RetryTimer(u, p)
  \/ \E u \in Users : \E p \in Peers(u) : StaleStep(u, p)

SpecFail == InitFail /\ [][NextFail]_vars

\* Sessions a and b where only a reconciles, and the link may fail repeatedly.
InitRetry == InitReady({"a", "b"}, {"a"}, {"a", "b"}, MaxFail + 1, 0, 0, 0)

NextRetry == Reconcile \/ Signaling \/ Recovery

SpecRetry == InitRetry /\ [][NextRetry]_vars

\* Sessions a and b where only a reconciles, and every connection gathers
\* local candidates.
InitIce == InitReady({"a", "b"}, {"a"}, {"a", "b"}, 0, 0, MaxIce, 0)

NextIce ==
  \/ Reconcile
  \/ Signaling
  \/ \E u \in Users : \E p \in Peers(u) : onicecandidate(u, p)

SpecIce == InitIce /\ [][NextIce]_vars

\* Sessions a and b where only a reconciles, and rows that no handler of the
\* room sent are inserted under the user id of a member.
InitStray == InitReady({"a", "b"}, {"a"}, {"a", "b"}, 0, 0, 0, MaxStray)

NextStray ==
  \/ Reconcile
  \/ Signaling
  \/ \E from \in members : \E to \in Peers(from) : \E s \in StrayRows(from) :
        InsertRow(from, to, s)

SpecStray == InitStray /\ [][NextStray]_vars

\* Sessions a and b started from the mounted components, initializeRoom taken
\* await by await, with an unmount possible while it is suspended.
InitStart == InitWith({"a", "b"}, {"a", "b"}, 0, MaxMember, 0, 0)

NextStart ==
  \/ \E u \in Users : \E ok \in BOOLEAN : initializeLocalStream(u, ok)
  \/ \E u \in Users : setupSignalingChannel(u)
  \/ \E u \in Users : cleanup(u)
  \/ Touch
  \/ Reconcile
  \/ Signaling

SpecStart == InitStart /\ [][NextStart]_vars

\* Sessions a and b started from the mounted components, negotiating, while
\* their users toggle microphone and camera.
InitToggle == InitWith({"a", "b"}, {"a", "b"}, 0, MaxMember, 0, 0)

NextToggle ==
  \/ \E u \in Users : \E ok \in BOOLEAN : initializeRoom(u, ok)
  \/ \E u \in Users : handleToggleAudio(u)
  \/ \E u \in Users : handleToggleVideo(u)
  \/ Touch
  \/ Reconcile
  \/ Signaling

SpecToggle == InitToggle /\ [][NextToggle]_vars

\* Sessions a and c, connected by the offer of a: the link fails once, and c
\* leaves the room and joins it again while the retry of a is pending.  Only
\* the responses of the fetches of a are followed.
InitRejoin == InitReady({"a", "c"}, {"a"}, {"a", "c"}, MaxFail, MaxMember + 1, 0, 0)

NextRejoin ==
  \/ retryTimers["a"]["c"] # <<>> /\ Leave("c")
  \/ Join("c")
  \/ \E i \in 1..Len(fetches["a"]) : fetchParticipants("a", i)
  \/ Signaling
  \/ /\ peerConnectionsRef["a"]["c"].conn = "connected"
     /\ TransportFails("a", "c", "failed")
  \/ \E u \in Users : \E p \in Peers(u) : RetryTimer(u, p)
  \/ \E u \in Users : \E p \in Peers(u) : StaleStep(u, p)

SpecRejoin == InitRejoin /\ [][NextRejoin]_vars

\* Sessions a and b, the two active participants of the room, and a user c who
\* is none: any of the three tries to insert rows, under any from_user_id and
\* for any recipient.
InitPolicy == InitReady({"a", "b"}, {"a"}, {"a", "b"}, 0, 0, 0, MaxStray)

NextPolicy ==
  \/ Reconcile
  \/ Signaling
  \/ \E uid \in Users : \E from \in Users : \E to \in Peers(from) :
        \E s \in StrayRows(from) : PolicyInsert(uid, from, to, s)

SpecPolicy == InitPolicy /\ [][NextPolicy]_vars

\* Sessions a and b where every connection gathers local candidates while b
\* may leave the room, so that a closes its connection to b.  Only the
\* responses of the fetches of a are followed.
InitGather == InitReady({"a", "b"}, {"a"}, {"a", "b"}, 0, MaxMember, MaxIce, 0)

NextGather ==
  \/ Leave("b")
  \/ \E i \in 1..Len(fetches["a"]) : fetchParticipants("a", i)
  \/ Signaling
  \/ \E u \in Users : \E p \in Peers(u) : onicecandidate(u, p)
  \/ \E u \in Users : \E p \in Peers(u) : StaleStep(u, p)

SpecGather == InitGather /\ [][NextGather]_vars

\* Sessions a and b started from the mounted components, with or without
\* local media, that negotiate, leave the room and are cleaned up.
InitStream == InitWith({"a", "b"}, {"a", "b"}, 0, MaxMember + 1, 0, 0)

NextStream ==
  \/ \E u \in Users : \E ok \in BOOLEAN : initializeRoom(u, ok)
  \/ \E x \in Users : Leave(x)
  \/ \E u \in Users : cleanup(u)
  \/ Touch
  \/ Reconcile
  \/ Signaling
  \/ \E u \in Users : \E p \in Peers(u) : StaleStep(u, p)

SpecStream == InitStream /\ [][NextStream]_vars

----------------------------------------------------------------------------
\* Properties

pc(u, p) == peerConnectionsRef[u][p]

Other(u) == IF u = "a" THEN "c" ELSE "a"

\* Lexicographic order of the participant ids.
Rank(u) == CASE u = "a" -> 1 [] u = "b" -> 2 [] u = "c" -> 3

\* No delivery, callback, timer or queued operation is left to run.
Quiescent ==
  /\ \A u \in sessions : phase[u] \in {"ready", "stopped"}
  /\ \A u \in Users : fetches[u] = <<>>
  /\ \A u \in Users : \A p \in Users :
       /\ opsChain[u][p] = <<>>
       /\ staleOps[u][p] = <<>>
       /\ retryTimers[u][p] = <<>>
       /\ webrtc_signals[u][p] = {}
       /\ (Has(u, p) /\ Matched(u, p)) => pc(u, p).conn = "connected"

\* C1: after the participants effect has processed a snapshot in an
\* initialised session with local media, the map holds a connection for
\* exactly the participants of the snapshot other than the local user.
C1_ReconcileExact ==
  [][\A u \in Users :
       (last'.op = "reconcile" /\ last'.u = u /\ isInitializedRef[u] /\ localStreamRef[u])
       => \A p \in Peers(u) : (peerConnectionsRef'[u][p].gen # 0) <=> (p \in participants'[u])
    ]_vars

C1_Witness ==
  /\ last.op = "reconcile" /\ last.info = "close"
  /\ isInitializedRef[last.u] /\ localStreamRef[last.u]
  /\ \E p \in Peers(last.u) : Has(last.u, p) /\ p \in participants[last.u]
  /\ \E q \in Peers(last.u) :
       ~Has(last.u, q) /\ pcCount[last.u][q] > 0 /\ q \notin participants[last.u]

\* C2: when a, b and c have joined and nothing is left to run, every one of
\* them holds a connected connection to each of the other two.
C2_FullMesh ==
  Quiescent => \A u \in Users : \A p \in Peers(u) : pc(u, p).conn = "connected"

\* C3: when a remote offer is applied while the own offer is outstanding, the
\* side with the smaller id rolls its offer back and goes on to answer, and the
\* side with the larger id leaves its connection as it is and answers nothing.
C3_GlareRule ==
  [][\A u \in Users : \A p \in Peers(u) :
       (last'.op = "setRemoteOffer" /\ last'.u = u /\ last'.p = p
          /\ pc(u, p).sig = "have-local-offer")
       => IF Rank(u) < Rank(p)
          THEN /\ peerConnectionsRef'[u][p].sig = "have-remote-offer"
               /\ peerConnectionsRef'[u][p].local = NoDesc
               /\ opsChain'[u][p] # <<>>
               /\ opsChain'[u][p][Len(opsChain'[u][p])].kind = "createAnswer"
          ELSE /\ peerConnectionsRef'[u][p] = pc(u, p)
               /\ opsChain'[u][p] = Tail(opsChain[u][p])
    ]_vars

\* C4: when a and b have each received the other's offer while their own was
\* outstanding and nothing is left to run, both ends are connected.
C4_GlareConverges ==
  (/\ Quiescent
   /\ failBudget = MaxFail
   /\ pc("a", "b").glared /\ pc("b", "a").glared)
  => (pc("a", "b").conn = "connected" /\ pc("b", "a").conn = "connected")

\* C5: once the remote description is set and no operation is pending, the
\* candidates added to the connection are the candidates received, in order.
C5_Buffered ==
  \A u \in Users : \A p \in Peers(u) :
    (Has(u, p) /\ pc(u, p).remote # NoDesc /\ opsChain[u][p] = <<>>)
    => pc(u, p).ice = iceRecv[u][p]

\* C6: every transition of a tracked connection to failed or disconnected
\* schedules a retry for that participant.
C6_EveryFailureRetries ==
  [][\A u \in Users : \A p \in Peers(u) :
       (/\ Has(u, p)
        /\ peerConnectionsRef'[u][p].conn \in {"failed", "disconnected"}
        /\ peerConnectionsRef'[u][p].conn # pc(u, p).conn)
       => Len(retryTimers'[u][p]) > Len(retryTimers[u][p])
    ]_vars

MaxBackoff == RetryDelay * 16

Min(x, y) == IF x < y THEN x ELSE y

C8_LinkRecovers ==
  (Quiescent /\ {"a", "c"} \in failedLinks /\ {"a", "c"} \subseteq members)
  => (pc("a", "c").conn = "connected" /\ pc("c", "a").conn = "connected")

\* C9: the reconcile step of a or c for a snapshot that differs from the
\* previous one by b having gone removes the connection to b and leaves the
\* entry of the other of a and c, with its transport state, remote stream and
\* pending operations, as it was.
C9_LeaveFrame ==
  [][\A u \in {"a", "c"} :
       (/\ last'.op = "reconcile" /\ last'.u = u
        /\ isInitializedRef[u] /\ localStreamRef[u]
        /\ "b" \in participants[u]
        /\ participants'[u] = participants[u] \ {"b"}
        /\ Other(u) \in participants'[u]
        /\ Has(u, Other(u)))
       => /\ peerConnectionsRef'[u]["b"] = NoPc
          /\ peerConnectionsRef'[u][Other(u)] = pc(u, Other(u))
          /\ opsChain'[u][Other(u)] = opsChain[u][Other(u)]
    ]_vars

C9_Witness ==
  /\ last.op = "reconcile" /\ last.info = "close" /\ last.u \in {"a", "c"}
  /\ "b" \notin participants[last.u] /\ Other(last.u) \in participants[last.u]
  /\ ~Has(last.u, "b") /\ pcCount[last.u]["b"] > 0
  /\ pc(last.u, Other(last.u)).conn = "connected"
  /\ pc(last.u, Other(last.u)).stream

\* C10: a handler that was suspended on a connection when closePeerConnection
\* closed it sends no signal afterwards, calls no further operation and changes
\* no connection, and the connection it holds is no longer in the map.
C10_NoSendAfterClose ==
  [][\A u \in Users : \A p \in Peers(u) :
       (last'.op = "stale" /\ last'.u = u /\ last'.p = p)
       => /\ webrtc_signals' = webrtc_signals
          /\ peerConnectionsRef' = peerConnectionsRef
          /\ staleOps'[u][p] = Tail(staleOps[u][p])
          /\ pc(u, p).gen # Head(staleOps[u][p]).gen
    ]_vars

C10_Witness ==
  /\ last.op = "stale"
  /\ last.info \in {"createOffer", "setLocalOffer", "setRemoteOffer", "createAnswer",
                    "setLocalAnswer"}

SignalTypes == {"offer", "answer", "ice-candidate"}

\* C11: a signal handled for a sender that has no entry in the map and is not
\* a participant of the session adds no entry to the map and starts no
\* operation.
C11_UntrackedDropped ==
  [][\A u \in Users : \A p \in Peers(u) :
       (/\ last'.op \in SignalTypes /\ last'.u = u /\ last'.p = p
        /\ ~Has(u, p) /\ p \notin participants[u])
       => /\ peerConnectionsRef' = peerConnectionsRef
          /\ opsChain' = opsChain
    ]_vars

\* The row handleSignal takes from the table in this step.
Handled(u, p) == webrtc_signals[p][u] \ webrtc_signals'[p][u]

Malformed(s) == s.desc = BadDesc \/ s.cand = BadCand

\* C12: handling a signal with a malformed payload changes neither the map nor
\* any connection, at the call of handleSignal and when the payload is rejected.
C12_MalformedNoChange ==
  [][\A u \in Users : \A p \in Peers(u) :
       /\ (/\ last'.op \in SignalTypes /\ last'.u = u /\ last'.p = p
           /\ \E s \in Handled(u, p) : Malformed(s))
          => peerConnectionsRef' = peerConnectionsRef
       /\ (/\ last'.info = "rejected" /\ last'.u = u /\ last'.p = p
           /\ opsChain[u][p] # <<>>
           /\ (Head(opsChain[u][p]).desc = BadDesc \/ Head(opsChain[u][p]).cand = BadCand))
          => peerConnectionsRef' = peerConnectionsRef
    ]_vars

CatchKinds == {"createOffer", "setLocalOffer", "setRemoteOffer", "createAnswer",
               "setLocalAnswer"}

\* C13: when an operation awaited by createPeerConnection or handleOffer is
\* rejected, the connection is afterwards removed from the map, or failed with
\* a retry scheduled, or still negotiating.
C13_CatchSettles ==
  [][\A u \in Users : \A p \in Peers(u) :
       (last'.op \in CatchKinds /\ last'.info = "rejected" /\ last'.u = u /\ last'.p = p)
       => \/ peerConnectionsRef'[u][p].gen = 0
          \/ /\ peerConnectionsRef'[u][p].conn = "failed"
             /\ retryTimers'[u][p] # <<>>
          \/ peerConnectionsRef'[u][p].sig # "stable"
          \/ opsChain'[u][p] # <<>>
    ]_vars

\* C18: handling a row whose room_id is not the room of the session changes no
\* connection of the session and starts no operation.
C18_RoomsIndependent ==
  [][\A u \in Users : \A p \in Peers(u) :
       (/\ last'.op \in SignalTypes /\ last'.u = u /\ last'.p = p
        /\ \E s \in Handled(u, p) : s.room_id # RoomId)
       => /\ peerConnectionsRef' = peerConnectionsRef
          /\ opsChain' = opsChain
    ]_vars

\* C14: once cleanup has run and initializeRoom has run to its end, the
\* session holds no local stream, no subscription and no connection.
C14_StoppedHoldsNothing ==
  \A u \in Users :
    phase[u] = "stopped"
    => /\ ~localStreamRef[u]
       /\ ~signalingChannelRef[u]
       /\ \A p \in Users : ~Has(u, p)

\* C15: when getUserMedia fails, initializeRoom does not subscribe to signaling
\* and does not mark the session initialised.
C15_NoStartWithoutMedia ==
  [][\A u \in Users :
       (last'.op = "initializeRoom" /\ last'.u = u /\ last'.info = "nomedia")
       => (~isInitializedRef'[u] /\ ~signalingChannelRef'[u])
    ]_vars

HandlerKinds == {"setRemoteOffer", "createAnswer", "setLocalAnswer", "setRemoteAnswer",
                 "addIceCandidate"}

\* C16: no signal handler calls an operation on the connection of a sender
\* while an operation called by the handler of an earlier signal of that
\* sender is still pending on it.
C16_OneAtATime ==
  [][\A u \in Users : \A p \in Peers(u) :
       (/\ last'.op \in SignalTypes /\ last'.u = u /\ last'.p = p
        /\ Len(opsChain'[u][p]) > Len(opsChain[u][p]))
       => \A i \in 1..Len(opsChain[u][p]) : opsChain[u][p][i].kind \notin HandlerKinds
    ]_vars

\* The row s2 was sent before the row s by the same connection of the sender:
\* the description of a connection is sent before its candidates, and its
\* candidates in the order they were gathered.
SentBefore(s2, s) ==
  /\ s.type = "ice-candidate"
  /\ \/ s2.type \in {"offer", "answer"} /\ s2.desc.gen = s.cand.gen
     \/ s2.type = "ice-candidate" /\ s2.cand.gen = s.cand.gen /\ s2.cand.n < s.cand.n

\* C17: when a row is delivered, no row that the same sender sent earlier to
\* the same recipient is still undelivered.
C17_InOrder ==
  [][\A u \in Users : \A p \in Peers(u) :
       (last'.op \in SignalTypes /\ last'.u = u /\ last'.p = p)
       => \A s \in Handled(u, p) : \A s2 \in webrtc_signals'[p][u] : ~SentBefore(s2, s)
    ]_vars

\* C19: a reconcile step of a session for the snapshot it has processed in
\* the step before creates and closes no connection, starts no operation and
\* sends nothing; and the keys of the map after a reconcile step are the ones
\* the effect yields for every order of the rows of the snapshot.
C19_Idempotent ==
  [][\A u \in Users :
       /\ (/\ last.op = "reconcile" /\ last.u = u
           /\ last'.op = "reconcile" /\ last'.u = u
           /\ participants'[u] = participants[u])
          => /\ peerConnectionsRef' = peerConnectionsRef
             /\ pcCount' = pcCount
             /\ opsChain' = opsChain
             /\ staleOps' = staleOps
             /\ webrtc_signals' = webrtc_signals
       /\ (/\ last'.op = "reconcile" /\ last'.u = u
           /\ isInitializedRef[u] /\ localStreamRef[u])
          => \A arr \in Orders(participants'[u]) :
               KeysAfter(u, arr) = {p \in Users : peerConnectionsRef'[u][p].gen # 0}
    ]_vars

C19_Witness ==
  /\ last.op = "reconcile" /\ last.info = "repeat"
  /\ isInitializedRef[last.u] /\ localStreamRef[last.u]
  /\ last.u \in participants[last.u]
  /\ \E p \in Peers(last.u) :
       /\ Has(last.u, p)
       /\ opsChain[last.u][p] =
            <<Op("createOffer", pcCount[last.u][p], Offer(last.u, 0), NoCand)>>

C21_StaleTimerNoOp ==
  [][\A u \in Users : \A p \in Peers(u) :
       (/\ last'.op = "retry" /\ last'.u = u /\ last'.p = p
        /\ retryTimers[u][p] # <<>>
        /\ (~Has(u, p) \/ pc(u, p).gen # Head(retryTimers[u][p]).gen))
       => /\ peerConnectionsRef' = peerConnectionsRef
          /\ pcCount' = pcCount
          /\ opsChain' = opsChain
          /\ staleOps' = staleOps
          /\ webrtc_signals' = webrtc_signals
    ]_vars

\* C22: every row of webrtc_signals was inserted by the user who is its
\* from_user_id, its sender and its recipient were active participants of the
\* room when it was inserted, and only its sender or recipient can read it.
C22_RowsBetweenParticipants ==
  last.op = "rls-insert" =>
    /\ last.info = last.u
    /\ last.u \in members /\ last.p \in members
    /\ \A uid \in Users : SelectPolicy(uid, last.u, last.p) => uid \in {last.u, last.p}

\* The ice-candidate rows from u to p added by the step.
NewIce(u, p) ==
  {s \in webrtc_signals'[u][p] \ webrtc_signals[u][p] : s.type = "ice-candidate"}

\* C23: every local candidate of an open connection is sent as exactly one
\* ice-candidate signal to the remote participant of that connection, whatever
\* its signaling state; an ice-candidate signal is sent only for the open
\* connection in the map, never for a closed one.
C23_CandidateSentOnce ==
  [][\A u \in Users : \A p \in Peers(u) :
       /\ (/\ Has(u, p) /\ signalingChannelRef[p]
           /\ peerConnectionsRef'[u][p].gen = pc(u, p).gen
           /\ peerConnectionsRef'[u][p].iceOut = pc(u, p).iceOut + 1)
          => NewIce(u, p) = {Signal("ice-candidate", NoDesc,
                                    [gen |-> pc(u, p).gen, n |-> pc(u, p).iceOut + 1])}
       /\ NewIce(u, p) # {}
          => /\ Has(u, p)
             /\ Cardinality(NewIce(u, p)) = 1
             /\ \A s \in NewIce(u, p) :
                  s.cand = [gen |-> pc(u, p).gen, n |-> pc(u, p).iceOut + 1]
             /\ peerConnectionsRef'[u][p].iceOut = pc(u, p).iceOut + 1
    ]_vars

\* A candidate gathered before the answer has arrived was sent.
C23_Witness ==
  /\ last.op = "onicecandidate"
  /\ Has(last.u, last.p)
  /\ pc(last.u, last.p).sig = "have-local-offer"
  /\ Signal("ice-candidate", NoDesc,
            [gen |-> pc(last.u, last.p).gen, n |-> pc(last.u, last.p).iceOut])
       \in webrtc_signals[last.u][last.p]

\* C24: once initializeRoom has completed with local media, every other
\* participant of the snapshot fetched during initialisation gets a connection
\* in the map without any further room_participants change: when nothing is
\* left to run and no change event has occurred, the connections are there.
C24_InitialPeersConnected ==
  (/\ Quiescent
   /\ memberBudget = MaxMember
   /\ \A u \in sessions : phase[u] = "ready" /\ localStreamRef[u])
  => \A u \in sessions : \A p \in participants[u] \ {u} : Has(u, p)

\* C25: a retry timer that fires closes and recreates a connection only if the
\* map entry is still the connection whose failure scheduled the timer and
\* that connection has not returned to connected.
C25_TimerOnlyOwnFailed ==
  [][\A u \in Users : \A p \in Peers(u) :
       (/\ last'.op = "retry" /\ last'.u = u /\ last'.p = p
        /\ retryTimers[u][p] # <<>>
        /\ peerConnectionsRef'[u][p] # peerConnectionsRef[u][p])
       => /\ Has(u, p)
          /\ pc(u, p).gen = Head(retryTimers[u][p]).gen
          /\ pc(u, p).conn # "connected"
    ]_vars

\* C26: a connection that has sent its offer or answer and never becomes
\* connected does not stay so forever, it is forced to failed and renegotiated:
\* when nothing is left to run, no retry is pending and the transport of the
\* connection cannot report anything, it is connected.
C26_NoSilentStall ==
  Quiescent =>
    \A u \in sessions : \A p \in Peers(u) :
      (/\ Has(u, p)
       /\ pc(u, p).local # NoDesc
       /\ pc(u, p).conn = "new"
       /\ ~CanFail(pc(u, p), "failed")
       /\ ~Matched(u, p))
      => FALSE

\* C27: when several fetchParticipants responses are applied in any order,
\* then once membership has stopped changing and every response is applied,
\* the participants state and the connection map of a session in the room
\* reflect the current active members of the directory.
C27_LatestSnapshotWins ==
  Quiescent =>
    \A u \in sessions :
      phase[u] = "ready" =>
        /\ participants[u] = members
        /\ {p \in Users : Has(u, p)} = members \ {u}

\* C28: every connection created and not yet closed is the map entry of its
\* participant.  The entry is the connection created last for the participant;
\* a connection is created over an occupied key only by the retry timer, which
\* has closed the old one; and an entry is dropped or replaced only by a step
\* that closes it, its pending operations being left on the closed object.
C28_EntryOwnsConnection ==
  [][\A u \in Users : \A p \in Peers(u) :
       /\ Has(u, p) => pc(u, p).gen = pcCount[u][p]
       /\ pcCount'[u][p] # pcCount[u][p]
          => /\ pcCount'[u][p] = pcCount[u][p] + 1
             /\ peerConnectionsRef'[u][p] # NoPc
             /\ peerConnectionsRef'[u][p].gen = pcCount'[u][p]
             /\ Has(u, p) => last'.op = "retry"
       /\ (Has(u, p) /\ (peerConnectionsRef'[u][p] = NoPc
                          \/ peerConnectionsRef'[u][p].gen # pc(u, p).gen))
          => /\ last'.op \in {"retry", "reconcile", "cleanup"}
             /\ staleOps'[u][p] = staleOps[u][p] \o opsChain[u][p]
    ]_vars

\* The retry timer has replaced a connection, and the other end holds a
\* connection created by handleOffer.
C28_Witness ==
  /\ last.op = "retry" /\ last.info = "recreate"
  /\ Has(last.u, last.p)
  /\ pcCount[last.u][last.p] >= 2
  /\ Has(last.p, last.u) /\ pc(last.p, last.u).creator = "offer"

\* The offer or answer rows from u to p added by the step.
NewDesc(u, p, t) == {s \in webrtc_signals'[u][p] \ webrtc_signals[u][p] : s.type = t}

RECURSIVE Count(_, _)
Count(ops, kinds) ==
  IF ops = <<>> THEN 0
  ELSE (IF Head(ops).kind \in kinds THEN 1 ELSE 0) + Count(Tail(ops), kinds)

\* The handleOffer calls of u for p that are suspended at one of their awaits.
Answering(chain) == Count(chain, {"setRemoteOffer", "createAnswer", "setLocalAnswer"})

\* C29: an offer is sent only once it is the local description of the
\* connection; an answer is sent only once an offer of the peer is applied as
\* the remote description and the answer is the local description; an answer
\* is sent only by a handleOffer call, which ends with it, and only a received
\* offer starts a handleOffer call, so there is at most one answer per offer.
C29_SendAfterSet ==
  [][\A u \in Users : \A p \in Peers(u) :
       /\ \A s \in NewDesc(u, p, "offer") :
            /\ Has(u, p) /\ last'.op = "setLocalOffer"
            /\ peerConnectionsRef'[u][p].local = s.desc
            /\ peerConnectionsRef'[u][p].sig = "have-local-offer"
       /\ \A s \in NewDesc(u, p, "answer") :
            /\ Has(u, p) /\ last'.op = "setLocalAnswer"
            /\ peerConnectionsRef'[u][p].local = s.desc
            /\ peerConnectionsRef'[u][p].remote.type = "offer"
            /\ peerConnectionsRef'[u][p].remote.from = p
            /\ Answering(opsChain'[u][p]) = Answering(opsChain[u][p]) - 1
       /\ Cardinality(NewDesc(u, p, "answer")) <= 1
       /\ Answering(opsChain'[u][p]) > Answering(opsChain[u][p])
          => /\ last'.op = "offer" /\ last'.u = u /\ last'.p = p
             /\ Answering(opsChain'[u][p]) = Answering(opsChain[u][p]) + 1
    ]_vars

\* An answer was sent, by a connection that had an offer of its own outstanding
\* when the offer of the peer arrived.
C29_Witness ==
  /\ last.op = "setLocalAnswer" /\ last.info # "rejected"
  /\ Has(last.u, last.p)
  /\ pc(last.u, last.p).glared
  /\ Signal("answer", pc(last.u, last.p).local, NoCand) \in webrtc_signals[last.u][last.p]

\* C30: a connection is created, on either path, only by a session that holds
\* its local stream, whose tracks are all added to the new connection; while
\* the stream is absent (not acquired yet, acquisition failed, or released by
\* cleanup) no connection is created and no offer or answer is sent.
C30_NoStreamNoConnection ==
  [][\A u \in Users : \A p \in Peers(u) :
       /\ pcCount'[u][p] # pcCount[u][p] => localStreamRef[u]
       /\ (peerConnectionsRef'[u][p] # NoPc /\ peerConnectionsRef'[u][p].gen # pc(u, p).gen)
          => localStreamRef[u]
       /\ NewDesc(u, p, "offer") \cup NewDesc(u, p, "answer") # {} => localStreamRef[u]
    ]_vars

\* A session without local stream was delivered the offer of a peer that has
\* created its connection, and has created none.
C30_Witness ==
  /\ last.op = "offer"
  /\ ~localStreamRef[last.u]
  /\ ~Has(last.u, last.p) /\ pcCount[last.u][last.p] = 0
  /\ Has(last.p, last.u) /\ pc(last.p, last.u).local # NoDesc

====
